---------------------------- MODULE Spec2Model ----------------------------
(***************************************************************************)
(* Model of tools/preprocess_data.py: the document source                  *)
(* (yield_from_files), the permit pool (threading.Semaphore), the encoder  *)
(* pool (Encoder.encode run inline or through multiprocessing.Pool.imap),  *)
(* and the driver loop of main() that feeds the indexed-dataset builders.  *)
(***************************************************************************)
EXTENDS Integers, Sequences, FiniteSets, TLC

(***************************************************************************)
(* Bounds of the model.  BASE_BUFFER stands for the 10000 of               *)
(* Semaphore(10000 + args.workers) and ChunkSize for chunksize=25; both    *)
(* are scaled down together so that a corpus of NumFiles files can fill    *)
(* the permit pool and more than one batch.  The scaling keeps the         *)
(* program's relation chunksize <= 10000 + workers for every workers > 1.  *)
(***************************************************************************)
NumFiles == 4
MaxWorkers == 3
BASE_BUFFER == 0
ChunkSize == 2

(***************************************************************************)
(* Characters and texts.  A text is a sequence of characters.              *)
(***************************************************************************)
SPACE_TOKEN == "U+2581"
TAB_TOKEN == "chr(1)"
NEWLINE_TOKEN == "chr(2)"

\* File contents the corpus is drawn from: an empty file, a file holding a
\* single tab, and a file holding "a ".
FileContents == { <<>>, <<"\t">>, <<"a", " ">> }

\* What stands in fnames for a file that open() cannot open (a dangling
\* symlink, a file without read permission).
Unreadable == <<"OSError">>

\* The configurations of --json-keys that are explored.
KeyConfigs == { <<"text">>, <<"text", "meta">>, <<"meta">> }

\* sanitize(text): three str.replace calls, one per reserved character.
Replace(text, old, new) == [i \in 1..Len(text) |-> IF text[i] = old THEN new ELSE text[i]]

sanitize(text) ==
    Replace(Replace(Replace(text, "\n", NEWLINE_TOKEN), "\t", TAB_TOKEN), " ", SPACE_TOKEN)

\* ftfy.fix_text: of its fixes only the removal of control characters acts
\* on the texts of this model (chr(1) and chr(2) are removed).
fix_text(text) == SelectSeq(text, LAMBDA c : c \notin {TAB_TOKEN, NEWLINE_TOKEN})

\* The tokenizer: one fixed id per character, eod = 0.
eod == 0

TokenId(c) ==
    CASE c = TAB_TOKEN -> 1
      [] c = NEWLINE_TOKEN -> 2
      [] c = SPACE_TOKEN -> 3
      [] OTHER -> 4

tokenize(text) == [i \in 1..Len(text) |-> TokenId(text[i])]

(***************************************************************************)
(* Python dicts, as sequences of <<key, value>> in insertion order.        *)
(***************************************************************************)
DictKeys(d) == { d[i][1] : i \in 1..Len(d) }

DictGet(d, k) == LET i == CHOOSE j \in 1..Len(d) : d[j][1] = k IN d[i][2]

DictSet(d, k, v) ==
    IF k \in DictKeys(d)
    THEN [i \in 1..Len(d) |-> IF d[i][1] = k THEN <<k, v>> ELSE d[i]]
    ELSE Append(d, <<k, v>>)

(***************************************************************************)
(* Encoder.encode.  The body of the loop over args.json_keys, for one key: *)
(* the value stored in ids[key], or a raised IndexError when doc_ids[-1]   *)
(* is evaluated on an empty doc_ids.                                       *)
(***************************************************************************)
\* An encoder that never appends the end-of-document id.
EncodeKey_NoEod(text, append_eod) ==
    LET text_ids == tokenize(text)
    IN  [ok |-> TRUE, val |-> IF Len(text_ids) > 0 THEN <<text_ids>> ELSE <<>>]

EncodeKey(text, append_eod) ==
    LET text_ids == tokenize(text)
        doc_ids == IF Len(text_ids) > 0 THEN <<text_ids>> ELSE <<>>
    IN  IF append_eod
        THEN IF Len(doc_ids) = 0
             THEN [ok |-> FALSE, val |-> <<>>]
             ELSE [ok |-> TRUE,
                   val |-> [doc_ids EXCEPT ![Len(doc_ids)] = Append(@, eod)]]
        ELSE [ok |-> TRUE, val |-> doc_ids]

RECURSIVE EncodeKeys(_, _, _, _)
EncodeKeys(text, keys, append_eod, ids) ==
    IF keys = <<>>
    THEN [ok |-> TRUE, ids |-> ids, n |-> Len(text)]
    ELSE LET r == EncodeKey(text, append_eod)
         IN  IF r.ok
             THEN EncodeKeys(text, Tail(keys), append_eod, DictSet(ids, Head(keys), r.val))
             ELSE [ok |-> FALSE, ids |-> <<>>, n |-> 0]

\* encode(text) under the arguments a: [ok, ids, n]; ok = FALSE is a raise.
encode(a, text) ==
    LET t == IF a.ftfy THEN fix_text(text) ELSE text
    IN  EncodeKeys(t, a.json_keys, a.append_eod, <<>>)


(***************************************************************************)
(* The indexed-dataset builder (megatron.data.indexed_dataset): the token  *)
(* blob, the per-sequence lengths, the document boundaries and the number  *)
(* of finalize calls received.                                             *)
(***************************************************************************)
make_builder == [blob |-> <<>>, sizes |-> <<>>, doc_idx |-> <<0>>, finalized |-> 0]

add_item(b, sentence) ==
    [b EXCEPT !.blob = @ \o sentence, !.sizes = Append(@, Len(sentence))]

end_document(b) == [b EXCEPT !.doc_idx = Append(@, Len(b.sizes))]

finalize(b) == [b EXCEPT !.finalized = @ + 1]

\* Reading the blob back through the length array: the stored sequences.
RECURSIVE ReadBack(_, _)
ReadBack(blob, sizes) ==
    IF sizes = <<>>
    THEN <<>>
    ELSE <<SubSeq(blob, 1, Head(sizes))>>
         \o ReadBack(SubSeq(blob, Head(sizes) + 1, Len(blob)), Tail(sizes))

(***************************************************************************)
(* State.                                                                  *)
(***************************************************************************)
VARIABLES
    args,       \* [workers, json_keys, append_eod, ftfy]
    fnames,     \* contents of the files, in the order left by random.shuffle
    fpos,       \* number of files yield_from_files has read
    ppc,        \* yield_from_files: "read", "acquire", "done" or "raised"
    held,       \* the document read and waiting in semaphore.acquire()
    sem,        \* the semaphore's counter
    chunk,      \* documents yielded into the batch being collected
    njobs,      \* number of tasks handed to the encoder
    taskq,      \* tasks waiting for a pool worker
    running,    \* tasks a pool worker is executing
    results,    \* finished tasks not yet delivered to the driver
    nextjob,    \* index of the task whose result the driver gets next
    cur_chunk,  \* rest of the delivered batch the driver iterates over
    dpc,        \* main: "next", "write", "finalize", "done" or "failed"
    failed_at,  \* where main raised: "", "read", "encode", "write", "finalize"
    doc,        \* the encoded result the loop body is working on
    total_bytes_processed,
    builders,   \* key -> builder
    acquires,   \* history: number of semaphore.acquire() calls returned
    releases,   \* history: number of semaphore.release() calls
    yielded,    \* history: ids of the documents yielded, in order
    enc_log,    \* history: [id, text, res] of every Encoder.encode call made
    finished,   \* history: task indices in the order workers finished them
    written,    \* history: ids of the documents whose loop body completed
    calls,      \* history: the driver's release and builder calls, in order
    inits,      \* worker -> number of times it has run Encoder.initializer
    uninitialized_encode  \* history: an encode ran without a tokenizer

vars == <<args, fnames, fpos, ppc, held, sem, chunk, njobs, taskq, running,
          results, nextjob, cur_chunk, dpc, failed_at, doc,
          total_bytes_processed, builders, acquires, releases, yielded,
          enc_log, finished, written, calls, inits, uninitialized_encode>>

producer_vars == <<fpos, ppc, held, chunk, yielded, acquires>>
pool_vars == <<njobs, taskq, running, results, enc_log, finished, inits,
               uninitialized_encode>>
driver_vars == <<nextjob, cur_chunk, dpc, failed_at, doc, total_bytes_processed,
                 builders, releases, written, calls>>

NoDoc == [id |-> 0, text |-> <<>>]
NoResult == [id |-> 0, ids |-> <<>>, n |-> 0]

\* Semaphore(10000 + args.workers)
K == BASE_BUFFER + args.workers

\* builders is filled for the keys of the tuple ("text",).
BuilderKeys == <<"text">>

Range(s) == { s[i] : i \in 1..Len(s) }

Init ==
    /\ args \in [workers : 1..MaxWorkers, json_keys : KeyConfigs,
                 append_eod : BOOLEAN, ftfy : BOOLEAN]
    /\ fnames \in [1..NumFiles -> FileContents \cup {Unreadable}]
    /\ fpos = 0
    /\ ppc = "read"
    /\ held = NoDoc
    /\ sem = K
    /\ chunk = <<>>
    /\ njobs = 0
    /\ taskq = <<>>
    /\ running = {}
    /\ results = {}
    /\ nextjob = 1
    /\ cur_chunk = <<>>
    /\ dpc = "next"
    /\ failed_at = ""
    /\ doc = NoResult
    /\ total_bytes_processed = 0
    /\ builders = [k \in Range(BuilderKeys) |-> make_builder]
    /\ acquires = 0
    /\ releases = 0
    /\ yielded = <<>>
    /\ enc_log = {}
    /\ finished = <<>>
    /\ written = <<>>
    /\ calls = <<>>
    /\ inits = [w \in 1..MaxWorkers |-> 0]
    /\ uninitialized_encode = FALSE

(***************************************************************************)
(* Encoder.initializer.  A pool process runs it when it starts, before it  *)
(* takes its first task; with one worker main runs it before it builds the *)
(* generator expression.  Worker 1 stands for main when args.workers = 1.  *)
(***************************************************************************)
\* A worker that goes to work whether or not its initializer has run.
Ready_Cold(n) == TRUE

\* The worker has passed its call of the initializer.
Ready(n) == n > 0

Busy(w) == \E t \in running : t.w = w

\* Workers in the same local state are interchangeable (a worker keeps
\* nothing but its tokenizer and the task it holds), so among them the one
\* with the lowest number takes the step.
Lowest(S) == CHOOSE w \in S : \A v \in S : w <= v

Unstarted == { w \in 1..args.workers : inits[w] = 0 /\ ~Busy(w) }

Idle == { w \in 1..args.workers : Ready(inits[w]) /\ ~Busy(w) }

\* Encoder.initializer(): Encoder.tokenizer = build_tokenizer(self.args)
WorkerInit ==
    /\ Unstarted # {}
    /\ inits' = [inits EXCEPT ![Lowest(Unstarted)] = @ + 1]
    /\ UNCHANGED <<args, fnames, sem, njobs, taskq, running, results, enc_log,
                   finished, uninitialized_encode>>
    /\ UNCHANGED producer_vars
    /\ UNCHANGED driver_vars

(***************************************************************************)
(* yield_from_files.  With workers > 1 the generator is run by the pool's  *)
(* task thread, concurrently with the driver; with one worker it is run by *)
(* the driver itself each time the loop asks for the next result.          *)
(***************************************************************************)
ProducerMayRun ==
    \/ args.workers > 1
    \/ /\ Ready(inits[1])
       /\ dpc = "next" /\ chunk = <<>> /\ results = {} /\ cur_chunk = <<>>

\* Pool.imap's task generation: a batch is put on the task queue when islice
\* has collected chunksize documents or the generator is exhausted.
Submit(batch, q, n) ==
    [q |-> Append(q, [job |-> n + 1, docs |-> batch, reraise |-> FALSE]),
     n |-> n + 1, chunk |-> <<>>]

\* Pool.imap's task generation when the generator raises: the batch being
\* collected is lost and a task that re-raises the exception is queued.
SubmitReraise(q, n) ==
    [q |-> Append(q, [job |-> n + 1, docs |-> <<>>, reraise |-> TRUE]),
     n |-> n + 1, chunk |-> <<>>]

\* A yielder that yields every document it has read.
Truthy_Always(f) == TRUE

\* "if f:" in yielder: the document is not the empty string.
Truthy(f) == f # <<>>

\* read(fname); a document that is empty after sanitize is not yielded.
ProducerRead ==
    /\ ppc = "read"
    /\ fpos < Len(fnames)
    /\ ProducerMayRun
    /\ fnames[fpos + 1] # Unreadable
    /\ LET f == sanitize(fnames[fpos + 1])
       IN  /\ fpos' = fpos + 1
           /\ IF Truthy(f)
              THEN /\ ppc' = "acquire"
                   /\ held' = [id |-> fpos + 1, text |-> f]
              ELSE UNCHANGED <<ppc, held>>
    /\ UNCHANGED <<args, fnames, sem, chunk, yielded, acquires>>
    /\ UNCHANGED pool_vars
    /\ UNCHANGED driver_vars

\* open(fname) raises OSError inside the generator.  With one worker the
\* exception leaves the generator expression at the loop head of main; with
\* more it is caught by the pool's task thread and travels as a task.
ProducerRaise ==
    /\ ppc = "read"
    /\ fpos < Len(fnames)
    /\ ProducerMayRun
    /\ fnames[fpos + 1] = Unreadable
    /\ fpos' = fpos + 1
    /\ ppc' = "raised"
    /\ IF args.workers > 1
       THEN LET s == SubmitReraise(taskq, njobs)
            IN  /\ chunk' = s.chunk
                /\ taskq' = s.q
                /\ njobs' = s.n
                /\ UNCHANGED <<dpc, failed_at>>
       ELSE /\ dpc' = "failed"
            /\ failed_at' = "read"
            /\ UNCHANGED <<chunk, taskq, njobs>>
    /\ UNCHANGED <<args, fnames, sem, held, yielded, acquires>>
    /\ UNCHANGED <<running, results, enc_log, finished, inits, uninitialized_encode>>
    /\ UNCHANGED <<nextjob, cur_chunk, doc, total_bytes_processed,
                   builders, releases, written, calls>>

\* A yielder that does not wait for a permit.
CanAcquire_NoWait(s) == TRUE

\* semaphore.acquire() blocks while the counter is zero.
CanAcquire(s) == s > 0

\* semaphore.acquire() returns and the document is yielded.
ProducerYield ==
    /\ ppc = "acquire"
    /\ CanAcquire(sem)
    /\ sem' = sem - 1
    /\ acquires' = acquires + 1
    /\ yielded' = Append(yielded, held.id)
    /\ ppc' = "read"
    /\ held' = NoDoc
    /\ LET batch == Append(chunk, held)
       IN  IF args.workers > 1 /\ Len(batch) = ChunkSize
           THEN LET s == Submit(batch, taskq, njobs)
                IN  /\ chunk' = s.chunk
                    /\ taskq' = s.q
                    /\ njobs' = s.n
           ELSE /\ chunk' = batch
                /\ UNCHANGED <<taskq, njobs>>
    /\ UNCHANGED <<args, fnames, fpos>>
    /\ UNCHANGED <<running, results, enc_log, finished, inits, uninitialized_encode>>
    /\ UNCHANGED driver_vars

\* The file list is exhausted; the batch collected so far is handed over.
ProducerExhaust ==
    /\ ppc = "read"
    /\ fpos = Len(fnames)
    /\ ProducerMayRun
    /\ ppc' = "done"
    /\ IF args.workers > 1 /\ chunk # <<>>
       THEN LET s == Submit(chunk, taskq, njobs)
            IN  /\ chunk' = s.chunk
                /\ taskq' = s.q
                /\ njobs' = s.n
       ELSE UNCHANGED <<chunk, taskq, njobs>>
    /\ UNCHANGED <<args, fnames, fpos, held, sem, yielded, acquires>>
    /\ UNCHANGED <<running, results, enc_log, finished, inits, uninitialized_encode>>
    /\ UNCHANGED driver_vars


(***************************************************************************)
(* The encoder.  A task is a batch of documents; executing it is           *)
(* list(map(encoder.encode, batch)): the documents are encoded in order    *)
(* and the first raise ends the task, whose result is then the exception.  *)
(***************************************************************************)
RECURSIVE MapEncode(_, _, _)
MapEncode(docs, items, log) ==
    IF docs = <<>>
    THEN [ok |-> TRUE, items |-> items, log |-> log, err |-> ""]
    ELSE LET d == Head(docs)
             r == encode(args, d.text)
             l == log \cup {[id |-> d.id, text |-> d.text, res |-> r]}
         IN  IF r.ok
             THEN MapEncode(Tail(docs),
                            Append(items, [id |-> d.id, ids |-> r.ids, n |-> r.n]), l)
             ELSE [ok |-> FALSE, items |-> <<>>, log |-> l, err |-> "encode"]

\* A pool worker takes the next task from the task queue.
WorkerTake ==
    /\ args.workers > 1
    /\ taskq # <<>>
    /\ Idle # {}
    /\ running' = running \cup {[job |-> Head(taskq).job, docs |-> Head(taskq).docs,
                                  reraise |-> Head(taskq).reraise, w |-> Lowest(Idle)]}
    /\ taskq' = Tail(taskq)
    /\ UNCHANGED <<args, fnames, sem, njobs, results, enc_log, finished, inits,
                   uninitialized_encode>>
    /\ UNCHANGED producer_vars
    /\ UNCHANGED driver_vars

\* A pool worker finishes its task and puts the result on the result queue.
WorkerFinish ==
    /\ \E t \in running :
          LET m == IF t.reraise
                   THEN [ok |-> FALSE, items |-> <<>>, log |-> enc_log, err |-> "read"]
                   ELSE IF inits[t.w] = 0
                   THEN [ok |-> FALSE, items |-> <<>>, log |-> enc_log, err |-> "encode"]
                   ELSE MapEncode(t.docs, <<>>, enc_log)
          IN  /\ running' = running \ {t}
              /\ uninitialized_encode' =
                     (uninitialized_encode \/ (~t.reraise /\ inits[t.w] = 0))
              /\ results' = results \cup {[job |-> t.job, ok |-> m.ok, items |-> m.items,
                                           err |-> m.err]}
              /\ enc_log' = m.log
              /\ finished' = Append(finished, t.job)
    /\ UNCHANGED <<args, fnames, sem, njobs, taskq, inits>>
    /\ UNCHANGED producer_vars
    /\ UNCHANGED driver_vars

\* args.workers = 1: the generator expression encodes the document the
\* generator has just yielded, in the driver's own thread.
EncodeInline ==
    /\ args.workers = 1
    /\ chunk # <<>>
    /\ LET m == IF inits[1] = 0
                THEN [ok |-> FALSE, items |-> <<>>, log |-> enc_log, err |-> "encode"]
                ELSE MapEncode(chunk, <<>>, enc_log)
       IN  /\ uninitialized_encode' = (uninitialized_encode \/ inits[1] = 0)
           /\ results' = results \cup {[job |-> njobs + 1, ok |-> m.ok, items |-> m.items,
                                        err |-> m.err]}
           /\ enc_log' = m.log
           /\ finished' = Append(finished, njobs + 1)
    /\ njobs' = njobs + 1
    /\ chunk' = <<>>
    /\ UNCHANGED <<args, fnames, sem, taskq, running, inits>>
    /\ UNCHANGED <<fpos, ppc, held, yielded, acquires>>
    /\ UNCHANGED driver_vars

(***************************************************************************)
(* The driver: the loop of main() over encoded_docs, and the final loop    *)
(* over args.json_keys.                                                    *)
(***************************************************************************)
\* An iterator that delivers results in the order they arrive.
NextResult_Unordered == results

\* The result the iterator would deliver next, if it has arrived.
NextResult == { r \in results : r.job = nextjob }

\* A release that returns two permits.
Release_Twice(s) == s + 2

\* A release that returns no permit.
Release_None(s) == s

\* semaphore.release()
Release(s) == s + 1

\* The loop head delivers a result; the body adds its byte count and
\* releases one permit.
DriverConsume ==
    /\ dpc = "next"
    /\ \/ /\ cur_chunk # <<>>
          /\ doc' = Head(cur_chunk)
          /\ cur_chunk' = Tail(cur_chunk)
          /\ UNCHANGED <<nextjob, results>>
       \/ /\ cur_chunk = <<>>
          /\ \E r \in NextResult :
                /\ r.ok
                /\ doc' = Head(r.items)
                /\ cur_chunk' = Tail(r.items)
                /\ results' = results \ {r}
          /\ nextjob' = nextjob + 1
    /\ total_bytes_processed' = total_bytes_processed + doc'.n
    /\ sem' = Release(sem)
    /\ releases' = releases + 1
    /\ calls' = Append(calls, [op |-> "release", key |-> "", doc |-> doc'.id, arg |-> <<>>])
    /\ dpc' = "write"
    /\ UNCHANGED <<args, fnames, njobs, taskq, running, enc_log, finished, inits,
                   uninitialized_encode>>
    /\ UNCHANGED producer_vars
    /\ UNCHANGED <<failed_at, builders, written>>

\* The loop head raises the exception a task ended with.
DriverRaise ==
    /\ dpc = "next"
    /\ cur_chunk = <<>>
    /\ \E r \in NextResult :
          /\ ~r.ok
          /\ results' = results \ {r}
          /\ failed_at' = r.err
    /\ nextjob' = nextjob + 1
    /\ dpc' = "failed"
    /\ UNCHANGED <<args, fnames, sem, njobs, taskq, running, enc_log, finished,
                   inits, uninitialized_encode>>
    /\ UNCHANGED producer_vars
    /\ UNCHANGED <<cur_chunk, doc, total_bytes_processed, builders, releases, written, calls>>

\* A loop that ends as soon as no delivered batch is left to iterate over.
DriverStop_Early ==
    /\ dpc = "next"
    /\ cur_chunk = <<>>
    /\ nextjob > 1
    /\ dpc' = "finalize"
    /\ UNCHANGED <<args, fnames, sem>>
    /\ UNCHANGED pool_vars
    /\ UNCHANGED producer_vars
    /\ UNCHANGED <<nextjob, cur_chunk, failed_at, doc, total_bytes_processed,
                   builders, releases, written, calls>>

\* The stream of results is exhausted: the loop ends.
DriverStop ==
    /\ dpc = "next"
    /\ cur_chunk = <<>>
    /\ ppc = "done"
    /\ chunk = <<>>
    /\ nextjob = njobs + 1
    /\ dpc' = "finalize"
    /\ UNCHANGED <<args, fnames, sem>>
    /\ UNCHANGED pool_vars
    /\ UNCHANGED producer_vars
    /\ UNCHANGED <<nextjob, cur_chunk, failed_at, doc, total_bytes_processed,
                   builders, releases, written, calls>>


\* A conversion that loses the last id of the list.
IntTensor_Truncated(sentence) == [i \in 1..(Len(sentence) - 1) |-> sentence[i]]

\* torch.IntTensor(sentence): a tensor holding the ids of the list, in order
\* (every id of this model fits the 32-bit element type).
IntTensor(sentence) == [i \in 1..Len(sentence) |-> sentence[i]]

Call(op, key, id, arg) == [op |-> op, key |-> key, doc |-> id, arg |-> arg]

\* for sentence in sentences: builders[key].add_item(torch.IntTensor(sentence))
RECURSIVE AddItems(_, _, _, _)
AddItems(st, id, key, sentences) ==
    IF sentences = <<>>
    THEN st
    ELSE LET t == IntTensor(Head(sentences))
         IN  AddItems([st EXCEPT !.b[key] = add_item(@, t),
                                 !.c = Append(@, Call("add_item", key, id, t))],
                      id, key, Tail(sentences))

\* A loop body that also seals the builder after each document.
WriteKey_Finalizing(st, id, key, sentences) ==
    IF key \notin DOMAIN st.b
    THEN [st EXCEPT !.ok = FALSE]
    ELSE LET a == AddItems(st, id, key, sentences)
         IN  [a EXCEPT !.b[key] = finalize(end_document(@)),
                       !.c = @ \o <<Call("end_document", key, id, <<>>),
                                    Call("finalize", key, 0, <<>>)>>]

\* A loop body that closes the document before it adds the document's items.
WriteKey_EndFirst(st, id, key, sentences) ==
    IF key \notin DOMAIN st.b
    THEN [st EXCEPT !.ok = FALSE]
    ELSE AddItems([st EXCEPT !.b[key] = end_document(@),
                             !.c = Append(@, Call("end_document", key, id, <<>>))],
                  id, key, sentences)

\* The body of "for key, sentences in doc.items()"; builders[key] raises
\* KeyError for a key that has no builder.
WriteKey(st, id, key, sentences) ==
    IF key \notin DOMAIN st.b
    THEN [st EXCEPT !.ok = FALSE]
    ELSE LET a == AddItems(st, id, key, sentences)
         IN  [a EXCEPT !.b[key] = end_document(@),
                       !.c = Append(@, Call("end_document", key, id, <<>>))]

RECURSIVE WriteDoc(_, _, _)
WriteDoc(st, id, items) ==
    IF items = <<>> \/ ~st.ok
    THEN st
    ELSE WriteDoc(WriteKey(st, id, Head(items)[1], Head(items)[2]), id, Tail(items))

\* The rest of the loop body: the builder calls for the delivered result.
DriverWrite ==
    /\ dpc = "write"
    /\ LET r == WriteDoc([b |-> builders, c |-> calls, ok |-> TRUE], doc.id, doc.ids)
       IN  /\ builders' = r.b
           /\ calls' = r.c
           /\ IF r.ok
              THEN /\ dpc' = "next"
                   /\ written' = Append(written, doc.id)
                   /\ UNCHANGED failed_at
              ELSE /\ dpc' = "failed"
                   /\ failed_at' = "write"
                   /\ UNCHANGED written
    /\ UNCHANGED <<args, fnames, sem>>
    /\ UNCHANGED pool_vars
    /\ UNCHANGED producer_vars
    /\ UNCHANGED <<nextjob, cur_chunk, doc, total_bytes_processed, releases>>

\* for key in args.json_keys: builders[key].finalize(output_idx_files[key])
RECURSIVE FinalizeAll(_, _)
FinalizeAll(st, keys) ==
    IF keys = <<>> \/ ~st.ok
    THEN st
    ELSE LET key == Head(keys)
         IN  IF key \notin DOMAIN st.b
             THEN [st EXCEPT !.ok = FALSE]
             ELSE FinalizeAll([st EXCEPT !.b[key] = finalize(@),
                                         !.c = Append(@, Call("finalize", key, 0, <<>>))],
                              Tail(keys))

DriverFinalize ==
    /\ dpc = "finalize"
    /\ LET r == FinalizeAll([b |-> builders, c |-> calls, ok |-> TRUE], args.json_keys)
       IN  /\ builders' = r.b
           /\ calls' = r.c
           /\ IF r.ok
              THEN /\ dpc' = "done"
                   /\ UNCHANGED failed_at
              ELSE /\ dpc' = "failed"
                   /\ failed_at' = "finalize"
    /\ UNCHANGED <<args, fnames, sem>>
    /\ UNCHANGED pool_vars
    /\ UNCHANGED producer_vars
    /\ UNCHANGED <<nextjob, cur_chunk, doc, total_bytes_processed, releases, written>>

Next ==
    \/ WorkerInit
    \/ ProducerRead
    \/ ProducerRaise
    \/ ProducerYield
    \/ ProducerExhaust
    \/ WorkerTake
    \/ WorkerFinish
    \/ EncodeInline
    \/ DriverConsume
    \/ DriverRaise
    \/ DriverStop
    \/ DriverWrite
    \/ DriverFinalize

Spec == Init /\ [][Next]_vars

\* The three parties of the pipeline.  The task thread of the pool (or, with
\* one worker, the generator run by main), the worker processes and the
\* main thread are each scheduled by the operating system: a party that can
\* take a step is not held back for ever.
Producer == ProducerRead \/ ProducerRaise \/ ProducerYield \/ ProducerExhaust
Workers == WorkerInit \/ WorkerTake \/ WorkerFinish \/ EncodeInline
Driver == DriverConsume \/ DriverRaise \/ DriverStop \/ DriverWrite \/ DriverFinalize

FairSpec ==
    /\ Spec
    /\ WF_vars(Producer)
    /\ WF_vars(Workers)
    /\ WF_vars(Driver)


(***************************************************************************)
(* Derived notions used by the properties.                                 *)
(***************************************************************************)
\* Ids of the documents read from disk and kept (non-empty after sanitize).
ReadIds == Range(yielded) \cup (IF ppc = "acquire" THEN {held.id} ELSE {})

\* Ids of the documents whose encoded result the loop head has delivered.
Taken == Range(written) \cup ({doc.id} \ {0})

\* Documents read from disk whose builder calls are not all done.
InFlight == Cardinality(ReadIds \ Range(written))

\* Documents that were yielded and whose result the driver has not taken.
Permitted == Range(yielded) \ Taken

\* Ids of the documents of the end_document calls made for a key, in order.
EndDocs(key) ==
    LET e == SelectSeq(calls, LAMBDA c : c.op = "end_document" /\ c.key = key)
    IN  [i \in 1..Len(e) |-> e[i].doc]

\* Arguments of the add_item calls made for a key, in order.
AddedItems(key) ==
    LET e == SelectSeq(calls, LAMBDA c : c.op = "add_item" /\ c.key = key)
    IN  [i \in 1..Len(e) |-> e[i].arg]

IsPrefix(s, t) == Len(s) <= Len(t) /\ \A i \in 1..Len(s) : s[i] = t[i]

\* Position of a document in the order of yielding.
YieldIndex(id) == CHOOSE i \in 1..Len(yielded) : yielded[i] = id

\* What Encoder.encode returned for a document.
EncOf(id) == (CHOOSE e \in enc_log : e.id = id).res

\* The tokenizer's output for the text Encoder.encode is given.
TokensOf(text) == tokenize(IF args.ftfy THEN fix_text(text) ELSE text)

(***************************************************************************)
(* C1.  Original statement: in every reachable state the number of         *)
(* documents read from disk but not yet fully passed to the builder is at  *)
(* most K = 10000 + W.                                                     *)
(***************************************************************************)
C1_InFlightAtMostK == InFlight <= K

(***************************************************************************)
(* C1, amended.  At most K documents hold a permit (yielded, result not    *)
(* yet taken by the driver), and the number of documents read from disk    *)
(* but not yet fully passed to the builder is at most K + 2: the driver    *)
(* releases the permit before it writes the result, and the source reads   *)
(* the next file before it acquires.                                       *)
(***************************************************************************)
C1_InFlightBound == Cardinality(Permitted) <= K /\ InFlight <= K + 2

C1_Witness == args.workers > 1 /\ InFlight = K + 2 /\ Cardinality(Permitted) = K

(***************************************************************************)
(* C2.  Permit accounting: one acquire per yielded document, one release   *)
(* per result taken by the driver, never more releases than acquires, and  *)
(* the semaphore's counter stays within 0..K.                              *)
(***************************************************************************)
C2_PermitAccounting ==
    /\ acquires = Len(yielded)
    /\ releases = Cardinality(Taken)
    /\ releases <= acquires
    /\ sem = K - acquires + releases
    /\ sem \in 0..K

C2_Witness == sem = 0 /\ ppc = "acquire" /\ releases > 0 /\ dpc = "write"

(***************************************************************************)
(* C3.  With more than one worker, whatever the order in which workers     *)
(* finish, the i-th end_document call of a builder belongs to the i-th     *)
(* yielded document.                                                       *)
(***************************************************************************)
C3_OrderPreserved ==
    \A key \in DOMAIN builders :
        /\ IsPrefix(EndDocs(key), yielded)
        /\ key \in Range(args.json_keys) => IsPrefix(written, EndDocs(key))

C3_Witness ==
    /\ args.workers > 1
    /\ \E i, j \in 1..Len(finished) : i < j /\ finished[i] > finished[j]
    /\ dpc = "done"
    /\ Len(yielded) >= 3
    /\ EndDocs("text") = yielded


(***************************************************************************)
(* C4.  Encoder.encode on a document whose tokenization is empty returns,  *)
(* for every key, an empty list of token sequences, without raising,       *)
(* whether append_eod is enabled or not.                                   *)
(***************************************************************************)
C4_EmptyTokenizationEncodes ==
    \A e \in enc_log :
        TokensOf(e.text) = <<>> =>
            /\ e.res.ok
            /\ \A key \in Range(args.json_keys) : DictGet(e.res.ids, key) = <<>>

(***************************************************************************)
(* C5.  When encoding raises, the permit acquired for the document whose   *)
(* encoding raised has been released by the time the failure has           *)
(* propagated out of main.                                                 *)
(***************************************************************************)
C5_PermitReleasedOnFailure ==
    (dpc = "failed" /\ failed_at = "encode") =>
        \E e \in enc_log : ~e.res.ok /\ releases >= YieldIndex(e.id)

(***************************************************************************)
(* C6.  When the stream of results is exhausted, finalize is called        *)
(* exactly once on every builder that was created and is never requested   *)
(* for a key that has no builder, whatever json_keys is.                   *)
(***************************************************************************)
C6_FinalizeEveryBuilderOnce ==
    /\ failed_at # "finalize"
    /\ dpc = "done" => \A key \in DOMAIN builders : builders[key].finalized = 1

(***************************************************************************)
(* C7.  Every key of json_keys has a builder, so the add_item and          *)
(* end_document calls of the driver find a builder for every key of every  *)
(* result, and a builder receives only token sequences of its own key.     *)
(***************************************************************************)
C7_BuilderForEveryKey ==
    /\ failed_at # "write"
    /\ \A i \in 1..Len(calls) :
          calls[i].op = "add_item" =>
              calls[i].arg \in Range(DictGet(EncOf(calls[i].doc).ids, calls[i].key))


\* Number of non-empty token sequences in a list of token sequences.
NonEmptyCount(sentences) == Cardinality({ i \in 1..Len(sentences) : sentences[i] # <<>> })

RECURSIVE Concat(_)
Concat(ss) == IF ss = <<>> THEN <<>> ELSE Head(ss) \o Concat(Tail(ss))

\* The token-sequence lists Encoder.encode produced for a key, for the
\* documents of a sequence of ids, concatenated in that order.
EncodedFor(key, ids) == Concat([i \in 1..Len(ids) |-> DictGet(EncOf(ids[i]).ids, key)])

\* The documents whose part of the loop body for a key is done.
DoneFor(key) ==
    IF dpc = "failed" /\ failed_at = "write" /\ key \in DictKeys(doc.ids)
    THEN Append(written, doc.id)
    ELSE written

(***************************************************************************)
(* C8.  Boundary correctness: after any prefix of the result stream a      *)
(* builder's boundary array starts at 0, is non-decreasing, ends at the    *)
(* number of add_item calls, has one entry per document written, and       *)
(* boundaries[d+1] - boundaries[d] is the number of non-empty token        *)
(* sequences the encoder produced for document d.                          *)
(***************************************************************************)
C8_BoundaryCorrectness ==
    \A key \in DOMAIN builders \cap Range(args.json_keys) :
        LET b == builders[key].doc_idx
            d == DoneFor(key)
        IN  /\ b[1] = 0
            /\ \A i \in 1..(Len(b) - 1) : b[i] <= b[i + 1]
            /\ b[Len(b)] = Len(AddedItems(key))
            /\ b[Len(b)] = Len(builders[key].sizes)
            /\ Len(b) = Len(d) + 1
            /\ \A i \in 1..Len(d) :
                  b[i + 1] - b[i] = NonEmptyCount(DictGet(EncOf(d[i]).ids, key))

C8_Witness ==
    LET b == builders["text"].doc_idx
    IN  /\ dpc = "done"
        /\ Len(b) >= 4
        /\ \E i \in 1..(Len(b) - 1) : b[i + 1] = b[i]
        /\ \E i \in 1..(Len(b) - 1) : b[i + 1] = b[i] + 1

(***************************************************************************)
(* C9.  Round trip: the token sequences appended to a key's builder, read  *)
(* back from the blob through the length array, are exactly the            *)
(* concatenation, in document order, of the token-sequence lists           *)
(* Encoder.encode produced for that key.                                   *)
(***************************************************************************)
C9_RoundTrip ==
    \A key \in DOMAIN builders \cap Range(args.json_keys) :
        /\ ReadBack(builders[key].blob, builders[key].sizes) = EncodedFor(key, DoneFor(key))
        /\ IsPrefix(DoneFor(key), yielded)

C9_Witness ==
    LET r == ReadBack(builders["text"].blob, builders["text"].sizes)
    IN  /\ dpc = "done"
        /\ args.workers > 1
        /\ Len(r) >= 3
        /\ \E i, j \in 1..Len(r) : r[i] # r[j]

(***************************************************************************)
(* C10.  For a document whose tokenization is non-empty Encoder.encode     *)
(* returns, for every key, exactly one token sequence: the tokenizer's     *)
(* output followed by the end-of-document id when append_eod is enabled,   *)
(* the tokenizer's output unchanged otherwise.  No result holds an empty   *)
(* token sequence and none is passed to add_item.                          *)
(***************************************************************************)
C10_OneSequencePerDocument ==
    /\ \A e \in enc_log :
          LET t == TokensOf(e.text)
          IN  /\ t # <<>> =>
                    /\ e.res.ok
                    /\ \A key \in Range(args.json_keys) :
                          DictGet(e.res.ids, key)
                              = << IF args.append_eod THEN Append(t, eod) ELSE t >>
              /\ e.res.ok =>
                    \A key \in Range(args.json_keys) :
                        <<>> \notin Range(DictGet(e.res.ids, key))
    /\ \A i \in 1..Len(calls) : calls[i].op = "add_item" => calls[i].arg # <<>>

C10_Witness ==
    /\ args.append_eod
    /\ \E e \in enc_log : Len(TokensOf(e.text)) >= 2 /\ e.res.ok
    /\ \E i \in 1..Len(calls) :
          /\ calls[i].op = "add_item"
          /\ Len(calls[i].arg) >= 3
          /\ calls[i].arg[Len(calls[i].arg)] = eod


\* Indices of the files that can be read and are not empty after sanitize.
NonEmptyFiles ==
    { i \in 1..Len(fnames) : fnames[i] # Unreadable /\ sanitize(fnames[i]) # <<>> }

(***************************************************************************)
(* C11.  A file that is empty after normalization is never yielded,        *)
(* acquires no permit and produces no document record; at finalize the     *)
(* number of documents recorded is the number of files with non-empty      *)
(* normalized content.                                                     *)
(***************************************************************************)
C11_EmptyFilesSkipped ==
    /\ ReadIds \subseteq NonEmptyFiles
    /\ acquires = Cardinality({ i \in NonEmptyFiles : i <= fpos })
                    - (IF ppc = "acquire" THEN 1 ELSE 0)
    /\ \A i \in 1..Len(calls) : calls[i].doc \in NonEmptyFiles \cup {0}
    /\ dpc \in {"finalize", "done"} =>
          \A key \in DOMAIN builders \cap Range(args.json_keys) :
              Len(builders[key].doc_idx) - 1 = Cardinality(NonEmptyFiles)

C11_Witness ==
    /\ dpc = "done"
    /\ args.append_eod
    /\ \E i \in 2..(Len(fnames) - 1) : fnames[i] = <<>>
    /\ Cardinality(NonEmptyFiles) = Len(fnames) - 1
    /\ Len(builders["text"].sizes) = Len(fnames) - 1
    /\ builders["text"].doc_idx = [i \in 1..Len(fnames) |-> i - 1]

(***************************************************************************)
(* C12.  A failure to open or read one input file is isolated to that      *)
(* file: the remaining readable non-empty files are still yielded and the  *)
(* run reaches finalize instead of aborting.                               *)
(***************************************************************************)
C12_ReadFailureIsolated ==
    (\E i \in 1..fpos : fnames[i] = Unreadable) =>
        (ppc # "raised" /\ failed_at # "read")


(***************************************************************************)
(* C13.  When an encoding or I/O failure has ended the run part-way, every *)
(* builder that received add_item or end_document calls has been           *)
(* finalized.                                                              *)
(***************************************************************************)
C13_FinalizeAfterFailure ==
    (dpc = "failed" /\ failed_at \in {"read", "encode"}) =>
        \A key \in DOMAIN builders :
            Len(builders[key].doc_idx) > 1 => builders[key].finalized >= 1


\* Ids of the documents whose result the loop head has delivered, in order.
TakenSeq == IF doc.id = 0 \/ doc.id \in Range(written) THEN written ELSE Append(written, doc.id)

\* The calls the loop body is to make for one result: the release, then for
\* each key of the result its add_item calls and one end_document.
RECURSIVE KeyCalls(_, _)
KeyCalls(id, items) ==
    IF items = <<>>
    THEN <<>>
    ELSE LET key == Head(items)[1]
             sentences == Head(items)[2]
         IN  [i \in 1..Len(sentences) |-> Call("add_item", key, id, sentences[i])]
             \o <<Call("end_document", key, id, <<>>)>>
             \o KeyCalls(id, Tail(items))

DocCalls(id) == <<Call("release", "", id, <<>>)>> \o KeyCalls(id, EncOf(id).ids)

RECURSIVE AllDocCalls(_)
AllDocCalls(ids) == IF ids = <<>> THEN <<>> ELSE DocCalls(Head(ids)) \o AllDocCalls(Tail(ids))

LoopCalls == SelectSeq(calls, LAMBDA c : c.op # "finalize")

(***************************************************************************)
(* C15.  For each consumed result the driver makes, in this order, one     *)
(* release, then for each key of the result all its add_item calls and     *)
(* exactly one end_document; the calls of two documents never interleave,  *)
(* and end_document is called once per key per document also when the      *)
(* document has no token sequence.                                         *)
(***************************************************************************)
C15_CallOrder ==
    /\ IsPrefix(LoopCalls, AllDocCalls(TakenSeq))
    /\ dpc # "write" => LoopCalls = AllDocCalls(TakenSeq)


\* No add_item or end_document call follows a finalize call for the same key.
NoWriteAfterFinalize ==
    \A i, j \in 1..Len(calls) :
        (i < j /\ calls[i].op = "finalize" /\ calls[j].key = calls[i].key)
            => calls[j].op \notin {"add_item", "end_document"}

\* A step that changes a builder is a step of the driver's loop body or of
\* its final loop, and changes nothing of the document source or the pool.
BuilderStepIsDriverStep ==
    builders' # builders =>
        /\ dpc \in {"write", "finalize"}
        /\ UNCHANGED <<sem, fpos, ppc, held, chunk, yielded, acquires,
                       njobs, taskq, running, results, enc_log, finished>>

(***************************************************************************)
(* C16.  Each builder is mutated only by the driver, never by the          *)
(* document source or an encoder worker and never by two operations at     *)
(* once, for any W; and all add_item and end_document calls on a builder   *)
(* precede its finalize call.                                              *)
(***************************************************************************)
C16_SingleWriter == []NoWriteAfterFinalize /\ [][BuilderStepIsDriverStep]_vars

C16_Witness ==
    /\ args.workers > 1
    /\ dpc = "done"
    /\ Len(written) >= 3
    /\ builders["text"].finalized = 1
    /\ calls[Len(calls)].op = "finalize"


(***************************************************************************)
(* The run of main() with args.workers = 1, as one sequential computation  *)
(* over the files from index i on: the calls main makes until it ends.     *)
(***************************************************************************)
RECURSIVE InlineCalls(_, _)
InlineCalls(i, st) ==
    IF i > Len(fnames)
    THEN FinalizeAll(st, args.json_keys).c
    ELSE IF fnames[i] = Unreadable
    THEN st.c
    ELSE LET f == sanitize(fnames[i])
         IN  IF ~Truthy(f)
             THEN InlineCalls(i + 1, st)
             ELSE LET r == encode(args, f)
                  IN  IF ~r.ok
                      THEN st.c
                      ELSE LET rel == [st EXCEPT !.c = Append(@, Call("release", "", i, <<>>))]
                               w == WriteDoc(rel, i, r.ids)
                           IN  IF w.ok THEN InlineCalls(i + 1, w) ELSE w.c

InlineRun ==
    InlineCalls(1, [b |-> [k \in Range(BuilderKeys) |-> make_builder], c |-> <<>>, ok |-> TRUE])

BuilderCalls(cs) == SelectSeq(cs, LAMBDA c : c.op # "release")

(***************************************************************************)
(* C17.  For the same enumeration order and tokenizer, the sequence of     *)
(* add_item / end_document / finalize calls a run with W > 1 workers has   *)
(* made when main ends is the sequence the inline run with W = 1 makes.    *)
(***************************************************************************)
C17_SameCallsAsInline ==
    (args.workers > 1 /\ dpc \in {"done", "failed"}) =>
        BuilderCalls(calls) = BuilderCalls(InlineRun)


(***************************************************************************)
(* C19.  At normal completion of a run, from the state in which finalize   *)
(* is called on, every permit acquired has been released: the number of    *)
(* acquires, of releases, of documents yielded and of end_document calls   *)
(* per key are equal, and the semaphore's counter is back at K.            *)
(***************************************************************************)
C19_PermitsReturned ==
    dpc \in {"finalize", "done"} =>
        /\ acquires = releases
        /\ releases = Len(yielded)
        /\ \A key \in Range(args.json_keys) : Len(EndDocs(key)) = Len(yielded)
        /\ sem = K

C19_Witness ==
    /\ dpc = "finalize"
    /\ args.workers > 1
    /\ acquires >= 3
    /\ sem = K
    /\ Len(EndDocs("text")) = acquires


(***************************************************************************)
(* C18.  Every encoder worker (each pool process when W > 1, main itself   *)
(* when W = 1) runs Encoder.initializer at most once and before it         *)
(* executes any encode call: no encode runs in a worker without a          *)
(* tokenizer, a worker holding a task has been initialized exactly once,   *)
(* and the tokenizer state is per worker (only the args.workers workers    *)
(* of the run have one).                                                   *)
(***************************************************************************)
C18_InitializedOnceBeforeEncode ==
    /\ ~uninitialized_encode
    /\ \A w \in 1..MaxWorkers :
          /\ inits[w] <= 1
          /\ w > args.workers => inits[w] = 0
    /\ \A t \in running : inits[t.w] = 1
    /\ (args.workers = 1 /\ (chunk # <<>> \/ enc_log # {})) => inits[1] = 1

\* One pool worker has finished a task, another is encoding, and a third
\* has not yet run its initializer.
C18_Witness ==
    /\ args.workers = 3
    /\ finished # <<>>
    /\ enc_log # {}
    /\ \E t \in running : ~t.reraise /\ inits[t.w] = 1
    /\ \E w \in 1..args.workers : inits[w] = 0


\* The run has no failure: every key has a builder, every file can be read
\* and every document that is yielded can be encoded.
FailureFree ==
    /\ Range(args.json_keys) \subseteq Range(BuilderKeys)
    /\ \A i \in 1..Len(fnames) :
          /\ fnames[i] # Unreadable
          /\ i \in NonEmptyFiles => encode(args, sanitize(fnames[i])).ok

\* The document source waits for a permit.
ProducerBlocked == ppc = "acquire" /\ ~CanAcquire(sem)

\* The driver waits for the next ordered result, which has not arrived.
DriverWaiting == dpc = "next" /\ cur_chunk = <<>> /\ NextResult = {}

\* Producer and driver both wait, and no worker holds or can take a task.
Stuck ==
    /\ ProducerBlocked
    /\ DriverWaiting
    /\ running = {}
    /\ taskq = <<>>

\* main has returned: every file was read, every document yielded was
\* written to the builder and the builders are finalized.
Completed ==
    /\ dpc = "done"
    /\ ppc = "done"
    /\ Range(yielded) = NonEmptyFiles
    /\ written = yielded
    /\ EndDocs("text") = yielded
    /\ builders["text"].finalized = 1

(***************************************************************************)
(* C14.  Deadlock freedom and completion: for any corpus and any W >= 1,   *)
(* under fair scheduling of producer, workers and driver and with no       *)
(* failure, the pipeline never reaches a state in which the producer is    *)
(* blocked on semaphore.acquire while the driver waits for the next        *)
(* ordered result and no worker can progress; every yielded document is    *)
(* eventually written to the builder and finalize is eventually called.    *)
(***************************************************************************)
C14_NoDeadlockAndCompletion ==
    /\ [](FailureFree => ~Stuck)
    /\ (FailureFree ~> Completed)

\* The producer is blocked with a partly filled batch and the driver waits
\* for the first result: only a worker can take the next step.
C14_Witness ==
    /\ FailureFree
    /\ args.workers > 1
    /\ ProducerBlocked
    /\ chunk # <<>>
    /\ DriverWaiting
    /\ running # {}

=============================================================================
